---- MODULE Spec2Model ----
(***************************************************************************)
(* A model of openapi-fetch (src/packages/openapi-fetch/src/index.js):     *)
(* the parameter serializers, the URL builder, the header merger and the   *)
(* request executor coreFetch.                                             *)
(*                                                                         *)
(* JavaScript strings are sequences of one-character strings, so that      *)
(* joins, prefixes and String.prototype.replace are computed character by  *)
(* character.  A JavaScript value is a record [t, s, es]:                  *)
(*   t  = "undefined" | "null" | "prim" | "array" | "object"               *)
(*   s  = String(value) of a primitive                                     *)
(*   es = the elements of an array (k = <<>>) or the own enumerable        *)
(*        entries [k, v] of an object, in insertion order; each v is a     *)
(*        scalar [t, s] with t = "object" standing for a nested object.    *)
(***************************************************************************)
EXTENDS Integers, Sequences, FiniteSets

\* ------------------------------------------------------------------ bounds
MaxSources == 3
MaxEntries == 2
MaxQueryParams == 2
MaxItems == 2
MaxSegments == 3
MaxHeaderEntries == 3

\* ----------------------------------------------------------------- strings

\* The value a throwing call stands for: no JavaScript string (its one
\* element is not a character), and every concatenation propagates it.
Thrown == <<"#Error">>

Cat(a, b) == IF a = Thrown \/ b = Thrown THEN Thrown ELSE a \o b

RECURSIVE Join(_, _)
\* Array.prototype.join over strings already converted
Join(parts, sep) ==
  IF parts = <<>> THEN <<>>
  ELSE IF Len(parts) = 1 THEN parts[1]
  ELSE Cat(Cat(parts[1], sep), Join(Tail(parts), sep))

StartsWith(s, p) == Len(s) >= Len(p) /\ SubSeq(s, 1, Len(p)) = p
EndsWith(s, p) == Len(s) >= Len(p) /\ SubSeq(s, Len(s) - Len(p) + 1, Len(s)) = p

\* index of the first occurrence of sub in s, 0 when there is none
IndexOf(s, sub) ==
  LET hits == {i \in 1..(Len(s) - Len(sub) + 1) : SubSeq(s, i, i + Len(sub) - 1) = sub}
  IN IF hits = {} THEN 0 ELSE CHOOSE i \in hits : \A j \in hits : i <= j

Contains(s, sub) == IndexOf(s, sub) > 0

\* ------------------------------------------------------------ JS values
Undefined == [t |-> "undefined", s |-> <<>>]
Null      == [t |-> "null", s |-> <<>>]
Nested    == [t |-> "object", s |-> <<>>]
Prim(str) == [t |-> "prim", s |-> str]

UndefinedV == [t |-> "undefined", s |-> <<>>, es |-> <<>>]
NullV      == [t |-> "null", s |-> <<>>, es |-> <<>>]
PrimV(str) == [t |-> "prim", s |-> str, es |-> <<>>]
ArrayV(items) == [t |-> "array", s |-> <<>>,
                  es |-> [i \in 1..Len(items) |-> [k |-> <<>>, v |-> items[i]]]]
ObjectV(entries) == [t |-> "object", s |-> <<>>, es |-> entries]

IsNullish(v) == v.t \in {"undefined", "null"}
PrimOf(v) == [t |-> v.t, s |-> v.s]

\* String(v), as template literals and encodeURIComponent convert
JSString(v) ==
  CASE v.t = "undefined" -> <<"u","n","d","e","f","i","n","e","d">>
    [] v.t = "null" -> <<"n","u","l","l">>
    [] v.t = "object" -> <<"[","o","b","j","e","c","t"," ","O","b","j","e","c","t","]">>
    [] OTHER -> v.s

\* the conversion Array.prototype.join applies to an element
JoinElement(v) == IF IsNullish(v) THEN <<>> ELSE JSString(v)

Unreserved ==
  {"a","b","c","d","e","f","g","h","i","j","k","l","m","n","o","p","q","r","s","t","u",
   "v","w","x","y","z","O","R","G","B","0","1","2","3","4","5","6","7","8","9",
   "-","_",".","!","~","*","'","(",")"}

EncodeChar(c) ==
  CASE c \in Unreserved -> <<c>>
    [] c = " " -> <<"%","2","0">>
    [] c = "$" -> <<"%","2","4">>
    [] c = "&" -> <<"%","2","6">>
    [] c = "," -> <<"%","2","C">>
    [] c = "/" -> <<"%","2","F">>
    [] c = ";" -> <<"%","3","B">>
    [] c = "=" -> <<"%","3","D">>
    [] c = "?" -> <<"%","3","F">>
    [] c = "[" -> <<"%","5","B">>
    [] c = "]" -> <<"%","5","D">>
    [] c = "{" -> <<"%","7","B">>
    [] c = "|" -> <<"%","7","C">>
    [] c = "}" -> <<"%","7","D">>

RECURSIVE encodeURIComponent(_)
encodeURIComponent(str) ==
  IF str = <<>> THEN <<>> ELSE EncodeChar(Head(str)) \o encodeURIComponent(Tail(str))

\* --------------------------------------------------------- the encoders
Styles == {"simple", "label", "matrix", "form", "spaceDelimited", "pipeDelimited",
           "deepObject"}

serializePrimitiveParam(name, value, allowReserved) ==
  IF IsNullish(value) THEN <<>>
  ELSE IF value.t = "object" THEN Thrown
  ELSE name \o <<"=">> \o (IF allowReserved THEN value.s ELSE encodeURIComponent(value.s))

\* { simple: ",", label: ".", matrix: ";" }[style] || "&"
ExplodeJoiner(style) ==
  CASE style = "simple" -> <<",">>
    [] style = "label" -> <<".">>
    [] style = "matrix" -> <<";">>
    [] OTHER -> <<"&">>

\* for (const k in value): the keys of an array are its indices
ObjectKeys(value) ==
  [i \in 1..Len(value.es) |->
     IF value.t = "array"
     THEN <<CASE i = 1 -> "0" [] i = 2 -> "1" [] i = 3 -> "2" [] OTHER -> "3">>
     ELSE value.es[i].k]

RECURSIVE FlatPairs_ValuesOnly(_, _, _)
\* FlatPairs with the keys left out of the flat list
FlatPairs_ValuesOnly(value, i, allowReserved) ==
  IF i > Len(value.es) THEN <<>>
  ELSE <<IF allowReserved THEN JoinElement(value.es[i].v)
         ELSE encodeURIComponent(JSString(value.es[i].v))>>
       \o FlatPairs_ValuesOnly(value, i + 1, allowReserved)

\* values.push(k, allowReserved ? value[k] : encodeURIComponent(value[k])),
\* each element as values.join(",") then converts it
RECURSIVE FlatPairs(_, _, _)
FlatPairs(value, i, allowReserved) ==
  IF i > Len(value.es) THEN <<>>
  ELSE <<ObjectKeys(value)[i],
         IF allowReserved THEN JoinElement(value.es[i].v)
         ELSE encodeURIComponent(JSString(value.es[i].v))>>
       \o FlatPairs(value, i + 1, allowReserved)

ExplodedObjectValues(name, value, options) ==
  [i \in 1..Len(value.es) |->
     serializePrimitiveParam(
       IF options.style = "deepObject"
       THEN name \o <<"[">> \o ObjectKeys(value)[i] \o <<"]">>
       ELSE ObjectKeys(value)[i],
       value.es[i].v, options.allowReserved)]

serializeObjectParam(name, value, options) ==
  IF value.t \notin {"object", "array"} THEN <<>>
  ELSE IF options.style /= "deepObject" /\ options.explode = FALSE
  THEN LET final == Join(FlatPairs(value, 1, options.allowReserved), <<",">>)
       IN CASE options.style = "form" -> name \o <<"=">> \o final
            [] options.style = "label" -> <<".">> \o final
            [] options.style = "matrix" -> <<";">> \o name \o <<"=">> \o final
            [] OTHER -> final
  ELSE LET joiner == ExplodeJoiner(options.style)
           final == Join(ExplodedObjectValues(name, value, options), joiner)
       IN IF options.style \in {"label", "matrix"} THEN Cat(joiner, final) ELSE final

\* { form: ",", spaceDelimited: "%20", pipeDelimited: "|" }[style] || ","
ArrayJoiner(style) ==
  CASE style = "spaceDelimited" -> <<"%","2","0">>
    [] style = "pipeDelimited" -> <<"|">>
    [] OTHER -> <<",">>

ExplodedArrayValues(name, value, options) ==
  [i \in 1..Len(value.es) |->
     IF options.style \in {"simple", "label"}
     THEN (IF options.allowReserved THEN JoinElement(value.es[i].v)
           ELSE encodeURIComponent(JSString(value.es[i].v)))
     ELSE serializePrimitiveParam(name, value.es[i].v, options.allowReserved)]

serializeArrayParam(name, value, options) ==
  IF value.t /= "array" THEN <<>>
  ELSE IF options.explode = FALSE
  THEN LET final ==
             Join([i \in 1..Len(value.es) |->
                     IF options.allowReserved THEN JoinElement(value.es[i].v)
                     ELSE encodeURIComponent(JSString(value.es[i].v))],
                  ArrayJoiner(options.style))
       IN CASE options.style = "simple" -> final
            [] options.style = "label" -> <<".">> \o final
            [] options.style = "matrix" -> <<";">> \o name \o <<"=">> \o final
            [] OTHER -> name \o <<"=">> \o final
  ELSE LET joiner == ExplodeJoiner(options.style)
           final == Join(ExplodedArrayValues(name, value, options), joiner)
       IN IF options.style \in {"label", "matrix"} THEN Cat(joiner, final) ELSE final


\* ---------------------------------------------------- the query serializer
\* A serializer option is "true", "false" or "unset" (the key is not given);
\* a sub-option object (array, object) is given or not.
NoSubOptions == [given |-> FALSE, style |-> "unset", explode |-> "unset"]
NoOptions == [given |-> FALSE, allowReserved |-> "unset",
              array |-> NoSubOptions, object |-> NoSubOptions]

\* { style: "form", explode: true, ...options?.array,
\*   allowReserved: options?.allowReserved || false }
ArrayOptions(options) ==
  [style |-> IF options.given /\ options.array.given /\ options.array.style /= "unset"
             THEN options.array.style ELSE "form",
   explode |-> IF options.given /\ options.array.given /\ options.array.explode /= "unset"
               THEN options.array.explode = "true" ELSE TRUE,
   allowReserved |-> options.given /\ options.allowReserved = "true"]

\* { style: "deepObject", explode: true, ...options?.object,
\*   allowReserved: options?.allowReserved || false }
ObjectOptions(options) ==
  [style |-> IF options.given /\ options.object.given /\ options.object.style /= "unset"
             THEN options.object.style ELSE "deepObject",
   explode |-> IF options.given /\ options.object.given /\ options.object.explode /= "unset"
               THEN options.object.explode = "true" ELSE TRUE,
   allowReserved |-> options.given /\ options.allowReserved = "true"]

\* what one iteration of the loop pushes onto search
QueryFragment(name, value, options) ==
  IF value.t = "array" THEN serializeArrayParam(name, value, ArrayOptions(options))
  ELSE IF value.t = "object" THEN serializeObjectParam(name, value, ObjectOptions(options))
  ELSE serializePrimitiveParam(name, PrimOf(value), options.given /\ options.allowReserved = "true")

RECURSIVE QuerySearch(_, _)
\* search: one fragment per parameter that is neither undefined nor null
QuerySearch(queryParams, options) ==
  IF queryParams = <<>> THEN <<>>
  ELSE LET e == Head(queryParams)
       IN (IF IsNullish(e.v) THEN <<>> ELSE <<QueryFragment(e.k, e.v, options)>>)
          \o QuerySearch(Tail(queryParams), options)

\* the function createQuerySerializer(options) returns, applied to queryParams
querySerializer(options, queryParams) == Join(QuerySearch(queryParams, options), <<"&">>)

\* ------------------------------------------------------ the path serializer

\* The length of the match of PATH_PARAM_RE = /\{[^{}]+\}/ that starts at
\* character i of s, 0 when there is none.
MatchAt(s, i) ==
  IF s[i] /= "{" THEN 0
  ELSE LET braces == {j \in (i + 1)..Len(s) : s[j] \in {"{", "}"}}
       IN IF braces = {} THEN 0
          ELSE LET j == CHOOSE x \in braces : \A y \in braces : x <= y
               IN IF s[j] = "}" /\ j > i + 1 THEN j - i + 1 ELSE 0

RECURSIVE PathMatches(_, _)
\* pathname.match(PATH_PARAM_RE): the matches from character i on, left to right
PathMatches(s, i) ==
  IF i > Len(s) THEN <<>>
  ELSE LET n == MatchAt(s, i)
       IN IF n > 0 THEN <<SubSeq(s, i, i + n - 1)>> \o PathMatches(s, i + n)
          ELSE PathMatches(s, i + 1)

\* U+0060, which a TLA+ string cannot hold
Grave == "U+0060"

RECURSIVE GetSubstitution(_, _, _, _)
\* The replacement text of String.prototype.replace with a string pattern:
\* $$ is "$", $& the matched text, $' the text after it and $ with a grave
\* accent (the character written Grave here) the text before it.
GetSubstitution(replacement, matched, before, after) ==
  IF replacement = <<>> THEN <<>>
  ELSE IF Head(replacement) = "$" /\ Len(replacement) >= 2
          /\ replacement[2] \in {"$", "&", Grave, "'"}
  THEN (CASE replacement[2] = "$" -> <<"$">>
          [] replacement[2] = "&" -> matched
          [] replacement[2] = Grave -> before
          [] OTHER -> after)
       \o GetSubstitution(SubSeq(replacement, 3, Len(replacement)), matched, before, after)
  ELSE <<Head(replacement)>> \o GetSubstitution(Tail(replacement), matched, before, after)

\* nextURL.replace(match, replacement): the first occurrence only
StringReplace(str, match, replacement) ==
  LET i == IndexOf(str, match)
  IN IF replacement = Thrown THEN Thrown
     ELSE IF i = 0 THEN str
     ELSE LET before == SubSeq(str, 1, i - 1)
              after == SubSeq(str, i + Len(match), Len(str))
          IN before \o GetSubstitution(replacement, match, before, after) \o after

\* pathParams[paramName] of a mapping given as its entries
Lookup(mapping, name) ==
  IF \E i \in 1..Len(mapping.es) : mapping.es[i].k = name
  THEN mapping.es[CHOOSE i \in 1..Len(mapping.es) : mapping.es[i].k = name].v
  ELSE UndefinedV

\* the placeholder between the braces, parsed: its name, style and explode
Placeholder(match) ==
  LET inner == SubSeq(match, 2, Len(match) - 1)
      explode == EndsWith(inner, <<"*">>)
      n1 == IF explode THEN SubSeq(inner, 1, Len(inner) - 1) ELSE inner
      style == IF StartsWith(n1, <<".">>) THEN "label"
               ELSE IF StartsWith(n1, <<";">>) THEN "matrix" ELSE "simple"
      n2 == IF style = "simple" THEN n1 ELSE Tail(n1)
  IN [paramName |-> n2, style |-> style, explode |-> explode]

\* the text one placeholder is replaced with (its parameter is neither
\* undefined nor null)
PathReplacement(ph, value) ==
  LET options == [style |-> ph.style, explode |-> ph.explode, allowReserved |-> FALSE]
  IN IF value.t = "array" THEN serializeArrayParam(ph.paramName, value, options)
     ELSE IF value.t = "object" THEN serializeObjectParam(ph.paramName, value, options)
     ELSE IF ph.style = "matrix"
     THEN Cat(<<";">>, serializePrimitiveParam(ph.paramName, PrimOf(value), FALSE))
     ELSE IF ph.style = "label" THEN <<".">> \o value.s
     ELSE value.s

RECURSIVE PathLoop(_, _, _)
\* for (const match of matches) { ... nextURL = nextURL.replace(match, ...) }
PathLoop(matches, nextURL, pathParams) ==
  IF matches = <<>> \/ nextURL = Thrown THEN nextURL
  ELSE LET match == Head(matches)
           ph == Placeholder(match)
           value == Lookup(pathParams, ph.paramName)
       IN IF IsNullish(pathParams) \/ IsNullish(value)
          THEN PathLoop(Tail(matches), nextURL, pathParams)
          ELSE PathLoop(Tail(matches),
                        StringReplace(nextURL, match, PathReplacement(ph, value)),
                        pathParams)

\* the value returned: undefined, a string, or (t = "thrown") an exception
defaultPathSerializer(pathname, pathParams) ==
  LET matches == PathMatches(pathname, 1)
  IN IF matches = <<>> THEN Undefined
     ELSE LET nextURL == PathLoop(matches, pathname, pathParams)
          IN IF nextURL = Thrown THEN [t |-> "thrown", s |-> <<>>] ELSE Prim(nextURL)

RECURSIVE StripLeadingQuestions(_)
\* .replace(LEADING_QUESTION_RE, "") with LEADING_QUESTION_RE = /^\?+/
StripLeadingQuestions(str) ==
  IF str /= <<>> /\ Head(str) = "?" THEN StripLeadingQuestions(Tail(str)) ELSE str

\* createFinalURL(pathname, {baseUrl, params, querySerializer}); queryString is
\* what options.querySerializer(options.params.query ?? {}) returned
createFinalURL(pathname, baseUrl, pathParams, queryString) ==
  LET url0 == Prim(baseUrl \o pathname)
      url1 == IF pathParams.t = "object" THEN defaultPathSerializer(url0.s, pathParams)
              ELSE url0
      search == IF queryString = Thrown THEN Thrown ELSE StripLeadingQuestions(queryString)
  IN IF url1.t = "thrown" \/ search = Thrown THEN [t |-> "thrown", s |-> <<>>]
     ELSE IF search /= <<>> THEN Prim(JSString(url1) \o <<"?">> \o search)
     ELSE url1

\* ------------------------------------------------------- the header merger
LowerChar(c) ==
  CASE c = "A" -> "a" [] c = "B" -> "b" [] c = "C" -> "c" [] c = "T" -> "t"
    [] OTHER -> c

\* the name a Headers object files a header under
LowerCase(str) == [i \in 1..Len(str) |-> LowerChar(str[i])]

\* A Headers object is the set of its <<lower-case name, value>> pairs.
HeadersSet(headers, k, v) ==
  {h \in headers : h[1] /= LowerCase(k)} \cup {<<LowerCase(k), JSString(v)>>}

\* HeadersDelete comparing the key as written
HeadersDelete_CaseSensitive(headers, k) == {h \in headers : h[1] /= k}

HeadersDelete(headers, k) == {h \in headers : h[1] /= LowerCase(k)}

RECURSIVE MergeEntries(_, _)
\* for (const [k, v] of iterator) { ... }
MergeEntries(headers, entries) ==
  IF entries = <<>> THEN headers
  ELSE LET e == Head(entries)
       IN MergeEntries(
            IF e.v.t = "null" THEN HeadersDelete(headers, e.k)
            ELSE IF e.v.t /= "undefined" THEN HeadersSet(headers, e.k, e.v)
            ELSE headers,
            Tail(entries))

RECURSIVE MergeSources(_, _)
\* for (const headerSet of allHeaders) { ... }
MergeSources(headers, allHeaders) ==
  IF allHeaders = <<>> THEN headers
  ELSE LET headerSet == Head(allHeaders)
       IN MergeSources(
            IF headerSet.t \notin {"object", "Headers"} THEN headers
            ELSE MergeEntries(headers, headerSet.es),
            Tail(allHeaders))

mergeHeaders(allHeaders) == MergeSources({}, allHeaders)

\* ------------------------------------------------------------ createClient
DEFAULT_HEADERS ==
  [t |-> "object",
   es |-> <<[k |-> <<"C","o","n","t","e","n","t","-","T","y","p","e">>,
             v |-> Prim(<<"a","p","p","l","i","c","a","t","i","o","n","/","j","s","o","n">>)]>>]

\* A querySerializer setting is undefined, a function (named by fn) or an
\* options object.
NoSerializerSetting == [kind |-> "undefined", fn |-> "none", options |-> NoOptions]
FunctionSetting(fn) == [kind |-> "function", fn |-> fn, options |-> NoOptions]
OptionsSetting(options) == [kind |-> "options", fn |-> "none", options |-> options]

\* what createClient closes over: the baseUrl loses one trailing slash
createClient(options) ==
  [querySerializer |-> options.querySerializer,
   headers |-> options.headers,
   baseUrl |-> IF EndsWith(options.baseUrl, <<"/">>)
               THEN SubSeq(options.baseUrl, 1, Len(options.baseUrl) - 1)
               ELSE options.baseUrl]

\* --------------------------------------------------- coreFetch: building
\* SpreadOptions merging the array and object sub-options key by key
SpreadOptions_Deep(global, request) ==
  LET sub(g, r) ==
        [given |-> g.given \/ r.given,
         style |-> IF r.given /\ r.style /= "unset" THEN r.style ELSE g.style,
         explode |-> IF r.given /\ r.explode /= "unset" THEN r.explode ELSE g.explode]
  IN [given |-> TRUE,
      allowReserved |-> IF request.allowReserved /= "unset" THEN request.allowReserved
                        ELSE global.allowReserved,
      array |-> sub(global.array, request.array),
      object |-> sub(global.object, request.object)]

\* { ...global, ...request }: a key the request gives replaces the client's
SpreadOptions(global, request) ==
  [given |-> TRUE,
   allowReserved |-> IF request.allowReserved /= "unset" THEN request.allowReserved
                     ELSE global.allowReserved,
   array |-> IF request.array.given THEN request.array ELSE global.array,
   object |-> IF request.object.given THEN request.object ELSE global.object]

\* the serializer createQuerySerializer(options) builds, or a caller's function
BuiltSerializer(options) == [kind |-> "built", fn |-> "none", options |-> options]
CustomSerializer(fn) == [kind |-> "function", fn |-> fn, options |-> NoOptions]

\* let querySerializer = ...; if (requestQuerySerializer) { querySerializer = ... }
ResolveQuerySerializer(globalQuerySerializer, requestQuerySerializer) ==
  IF requestQuerySerializer.kind = "undefined"
  THEN (IF globalQuerySerializer.kind = "function"
        THEN CustomSerializer(globalQuerySerializer.fn)
        ELSE BuiltSerializer(globalQuerySerializer.options))
  ELSE IF requestQuerySerializer.kind = "function"
  THEN CustomSerializer(requestQuerySerializer.fn)
  ELSE BuiltSerializer(
         SpreadOptions(IF globalQuerySerializer.kind = "options"
                       THEN globalQuerySerializer.options
                       ELSE [NoOptions EXCEPT !.given = TRUE],
                       requestQuerySerializer.options))

\* What a caller's serializer function returns is the caller's choice: the
\* client-level one here returns g=1, the request-level one ?r=1.
CustomSerializerResult(fn) ==
  IF fn = "globalFn" THEN <<"g", "=", "1">> ELSE <<"?", "r", "=", "1">>

ApplySerializer(qs, queryParams) ==
  IF qs.kind = "function" THEN CustomSerializerResult(qs.fn)
  ELSE querySerializer(qs.options, queryParams)

\* --------------------------------------------------- coreFetch: responses
NoContentStatus == 204

Digits == {"0", "1", "2", "3", "4", "5", "6", "7", "8", "9"}

\* the outcome of a read: a value, or the error it rejects with
Fulfilled(t, str) == [ok |-> TRUE, v |-> [t |-> t, s |-> str], err |-> "none"]
Rejected(err) == [ok |-> FALSE, v |-> Undefined, err |-> err]

\* JSON.parse on the texts of the model: a number, a string without escapes,
\* the empty object; anything else is a SyntaxError
ParseJSON(text) ==
  IF text /= <<>> /\ \A i \in 1..Len(text) : text[i] \in Digits
  THEN Fulfilled("number", text)
  ELSE IF Len(text) >= 2 /\ text[1] = "\"" /\ text[Len(text)] = "\""
          /\ \A i \in 2..(Len(text) - 1) : text[i] /= "\""
  THEN Fulfilled("string", SubSeq(text, 2, Len(text) - 1))
  ELSE IF text = <<"{", "}">> THEN Fulfilled("object", <<>>)
  ELSE Rejected("SyntaxError")

\* what a body method yields on an unread body
BodyContent(method, body) ==
  IF method = "json" THEN ParseJSON(body) ELSE Fulfilled(method, body)

\* IsEmptyContent without the Content-Length test
IsEmptyContent_StatusOnly(r) == r.status = NoContentStatus

\* response.status === 204 || response.headers.get("Content-Length") === "0"
IsEmptyContent(r) == r.status = NoContentStatus \/ r.contentLength = <<"0">>

\* the literal {} of the empty-content branch
EmptyObject == [t |-> "object", s |-> <<>>]

\* EmptyContentResult that always reports data
EmptyContentResult_AlwaysData(r) ==
  [kind |-> "data", payload |-> EmptyObject, response |-> r.id]

\* response.ok ? { data: {}, response } : { error: {}, response }
EmptyContentResult(r) ==
  [kind |-> IF r.ok THEN "data" ELSE "error", payload |-> EmptyObject, response |-> r.id]

\* typeof cloned[parseAs] === "function" ? cloned[parseAs]() : cloned.text()
ParseMethod(parseAs) == IF parseAs \in {"json", "text", "blob"} THEN parseAs ELSE "text"

\* ErrorTextTarget reading the clone that json() has already consumed
ErrorTextTarget_SameClone == "lastClone"

\* The object each read is made on: response.clone() everywhere.
OkParseTarget == "freshClone"
ErrorJsonTarget == "freshClone"
ErrorTextTarget == "freshClone"

\* ------------------------------------------------------------------ state
VARIABLES
  pc,             \* where the request is: idle, sent, responded, errorText, done, thrown
  clientOptions,  \* what createClient(clientOptions) closed over
  fetchOptions,   \* the options of the call in progress
  finalURL,       \* coreFetch's finalURL
  finalHeaders,   \* coreFetch's finalHeaders
  response,       \* the Response the transport returned
  clones,         \* the clones made of it, in order
  result,         \* what the call resolved with
  serializer,     \* coreFetch's querySerializer, as resolved for the call
  thrown,         \* the error the call rejected with
  args,           \* the arguments of a direct call of an exported function
  ret,            \* what it returned
  called,         \* whether it has been called
  requests,       \* the coreFetch calls in progress on one client, each with its locals
  heap            \* the objects they can all reach: DEFAULT_HEADERS, the closure of createClient, Headers

coreVars == <<pc, clientOptions, fetchOptions, finalURL, finalHeaders, response, clones,
              result, serializer, thrown>>
callVars == <<args, ret, called>>
concVars == <<requests, heap>>
vars == <<coreVars, callVars, concVars>>

\* no concurrent calls
NoConcurrent == requests = <<>> /\ heap = <<>>

NoRequest ==
  /\ pc = "unused" /\ clientOptions = <<>> /\ fetchOptions = <<>> /\ finalURL = <<>>
  /\ finalHeaders = {} /\ response = <<>> /\ clones = <<>> /\ result = <<>>
  /\ serializer = <<>> /\ thrown = "none"

\* ------------------------------------------- serializeObjectParam, called
ObjectKeyNames == {<<"R">>, <<"G">>, <<"B">>}
ScalarValues == {Prim(<<"1">>), Prim(<<"a", "/", "b">>), Null}

\* the mappings of at most MaxEntries entries with distinct keys
Mappings ==
  {ObjectV(es) : es \in
     UNION {[1..n -> [k : ObjectKeyNames, v : ScalarValues]] : n \in 0..MaxEntries}}

DistinctKeys(value) ==
  \A i, j \in 1..Len(value.es) : value.es[i].k = value.es[j].k => i = j

InitObject ==
  /\ NoRequest
  /\ NoConcurrent
  /\ args \in [name : {<<"c">>}, value : {m \in Mappings : DistinctKeys(m)},
               options : [style : Styles, explode : BOOLEAN, allowReserved : BOOLEAN]]
  /\ ret = <<>>
  /\ called = FALSE

CallSerializeObjectParam ==
  /\ ~called
  /\ ret' = serializeObjectParam(args.name, args.value, args.options)
  /\ called' = TRUE
  /\ UNCHANGED <<args, coreVars, concVars>>

NextObject == CallSerializeObjectParam

SpecObject == InitObject /\ [][NextObject]_vars

AllPrimitive(value) == \A i \in 1..Len(value.es) : value.es[i].v.t = "prim"

\* k,v of one entry, v percent-encoded unless allowReserved
FlatEntry(e, allowReserved) ==
  e.k \o <<",">> \o (IF allowReserved THEN e.v.s ELSE encodeURIComponent(e.v.s))

\* k1,v1,k2,v2,... in key insertion order
Flat(value, allowReserved) ==
  Join([i \in 1..Len(value.es) |-> FlatEntry(value.es[i], allowReserved)], <<",">>)

\* the wrapping the specification gives per style
WrapByStyle(style, name, flat) ==
  CASE style = "form" -> name \o <<"=">> \o flat
    [] style = "label" -> <<".">> \o flat
    [] style = "matrix" -> <<";">> \o name \o <<"=">> \o flat
    [] OTHER -> flat

\* name[k]=v of one entry
DeepEntry(name, e, allowReserved) ==
  name \o <<"[">> \o e.k \o <<"]", "=">>
  \o (IF allowReserved THEN e.v.s ELSE encodeURIComponent(e.v.s))

\* C9 as stated: with explode = false every one of the seven styles gives the
\* flat k1,v1,k2,v2,... form wrapped by style, deepObject giving the bare flat form.
C9_AllStylesFlat ==
  (called /\ args.options.explode = FALSE /\ AllPrimitive(args.value))
    => ret = WrapByStyle(args.options.style, args.name,
                         Flat(args.value, args.options.allowReserved))

\* C9 amended: with explode = false the six styles other than deepObject give the
\* flat form wrapped by style (form name=flat, label .flat, matrix ;name=flat,
\* simple, spaceDelimited and pipeDelimited the bare flat form); deepObject
\* ignores explode and gives name[k1]=v1&name[k2]=v2...
C9_FlatExceptDeepObject ==
  (called /\ args.options.explode = FALSE /\ AllPrimitive(args.value))
    => IF args.options.style /= "deepObject"
       THEN ret = WrapByStyle(args.options.style, args.name,
                              Flat(args.value, args.options.allowReserved))
       ELSE ret = Join([i \in 1..Len(args.value.es) |->
                          DeepEntry(args.name, args.value.es[i],
                                    args.options.allowReserved)], <<"&">>)

\* a two-entry mapping with a value that needs encoding, serialized unexploded
C9_Witness ==
  /\ called /\ args.options.explode = FALSE /\ AllPrimitive(args.value)
  /\ Len(args.value.es) = 2
  /\ args.options.style = "matrix" /\ ~args.options.allowReserved
  /\ \E i \in 1..2 : args.value.es[i].v.s = <<"a", "/", "b">>
  /\ ret /= <<>>

\* ------------------------------------------- createQuerySerializer, called
QueryNames == {<<"a">>, <<"b">>}

\* the elements of an array or the members of an object: a primitive or nullish
Elements == {Prim(<<"1">>), Null, Undefined}

\* arrays of at most MaxItems elements
Arrays == {ArrayV(items) : items \in UNION {[1..n -> Elements] : n \in 0..MaxItems}}

\* shallow objects of at most one member
ShallowObjects ==
  {ObjectV(<<>>)} \cup {ObjectV(<<[k |-> <<"R">>, v |-> e]>>) : e \in Elements}

QueryValues == {PrimV(<<"1">>), NullV, UndefinedV} \cup Arrays \cup ShallowObjects

\* the mappings of at most MaxQueryParams parameters with distinct names
QueryMappings ==
  {es \in UNION {[1..n -> [k : QueryNames, v : QueryValues]] : n \in 0..MaxQueryParams} :
     \A i, j \in 1..Len(es) : es[i].k = es[j].k => i = j}

SubOptionSets ==
  {NoSubOptions}
  \cup [given : {TRUE}, style : {"unset", "form", "pipeDelimited"},
        explode : {"unset", "false"}]

QueryOptionSets ==
  {NoOptions}
  \cup [given : {TRUE}, allowReserved : {"unset", "true"},
        array : SubOptionSets, object : {NoSubOptions}]
  \cup [given : {TRUE}, allowReserved : {"unset"},
        array : {NoSubOptions}, object : SubOptionSets]

InitQuery ==
  /\ NoRequest
  /\ NoConcurrent
  /\ args \in [options : QueryOptionSets, queryParams : QueryMappings]
  /\ ret = <<>>
  /\ called = FALSE

CallQuerySerializer ==
  /\ ~called
  /\ ret' = querySerializer(args.options, args.queryParams)
  /\ called' = TRUE
  /\ UNCHANGED <<args, coreVars, concVars>>

NextQuery == CallQuerySerializer

SpecQuery == InitQuery /\ [][NextQuery]_vars

\* C6: the string the query serializer returns is the &-join of non-empty
\* fragments only: it never starts with &, never ends with & and never
\* contains &&, whatever nullish values, empty arrays or empty objects the
\* mapping holds.
C6_NoEmptyFragment ==
  called => /\ ~StartsWith(ret, <<"&">>)
            /\ ~EndsWith(ret, <<"&">>)
            /\ ~Contains(ret, <<"&", "&">>)

\* -------------------------------------------------- mergeHeaders, called
\* A and a are one header; b is another
HeaderNames == {<<"A">>, <<"a">>, <<"b">>}
HeaderValues == {Prim(<<"1">>), Prim(<<"2">>), Null, Undefined}
HeaderEntries ==
  [k : {<<"A">>, <<"a">>}, v : HeaderValues] \cup [k : {<<"b">>}, v : {Prim(<<"1">>), Null}]

\* header sets of at most MaxEntries entries with distinct own keys
HeaderObjects ==
  {[t |-> "object", es |-> es] : es \in
     {x \in UNION {[1..n -> HeaderEntries] : n \in 0..MaxEntries} :
        \A i, j \in 1..Len(x) : x[i].k = x[j].k => i = j}}

\* what mergeHeaders skips: a nullish source and a value that is no object
SkippedSources == {[t |-> "null", es |-> <<>>], [t |-> "prim", es |-> <<>>]}

HeaderSources == HeaderObjects \cup SkippedSources

RECURSIVE AllEntries(_)
\* the entries of the object sources, in the order the sources are given
AllEntries(allHeaders) ==
  IF allHeaders = <<>> THEN <<>>
  ELSE (IF Head(allHeaders).t = "object" THEN Head(allHeaders).es ELSE <<>>)
       \o AllEntries(Tail(allHeaders))

InitMerge ==
  /\ NoRequest
  /\ NoConcurrent
  /\ args = <<>>
  /\ ret = {}
  /\ called = FALSE

\* the caller passes one more source: mergeHeaders(...args, headerSet)
CallMergeHeaders ==
  \E headerSet \in HeaderSources :
    /\ Len(args) < MaxSources
    /\ Len(AllEntries(args)) + Len(headerSet.es) <= MaxHeaderEntries
    /\ args' = Append(args, headerSet)
    /\ ret' = mergeHeaders(args')
    /\ called' = TRUE
    /\ UNCHANGED <<coreVars, concVars>>

NextMerge == CallMergeHeaders

SpecMerge == InitMerge /\ [][NextMerge]_vars

\* the entries given for one header, whatever the case of their keys
EntriesFor(allHeaders, name) ==
  SelectSeq(AllEntries(allHeaders), LAMBDA e : LowerCase(e.k) = name)

\* the index of the last entry that is not undefined, 0 when there is none
LastWriter(entries) ==
  LET writers == {i \in 1..Len(entries) : entries[i].v.t /= "undefined"}
  IN IF writers = {} THEN 0 ELSE CHOOSE i \in writers : \A j \in writers : j <= i

\* C5: every header is resolved on its own by last-writer-wins over the
\* sources left to right, keys compared case-insensitively: the header is
\* present exactly when the last entry for it that is not undefined is not
\* null, and then holds that entry's value; nullish and non-object sources
\* count for nothing.
C5_LastWriterWins ==
  called =>
    /\ \A h \in ret : h[1] \in {LowerCase(n) : n \in HeaderNames}
    /\ \A name \in {LowerCase(n) : n \in HeaderNames} :
         LET entries == EntriesFor(args, name)
             w == LastWriter(entries)
         IN IF w = 0 \/ entries[w].v.t = "null"
            THEN ~\E h \in ret : h[1] = name
            ELSE {h \in ret : h[1] = name} = {<<name, entries[w].v.s>>}

\* A was set, then removed by a null under another case of the key, then
\* set again, with an undefined entry last and a skipped source in between
C5_Witness ==
  /\ called
  /\ \E i \in 1..Len(args) : args[i].t /= "object"
  /\ LET entries == EntriesFor(args, <<"a">>)
     IN /\ Len(entries) >= 3
        /\ entries[1].v.t = "prim" /\ entries[1].k = <<"A">>
        /\ entries[2].v.t = "null" /\ entries[2].k = <<"a">>
        /\ entries[3].v.t = "prim"
  /\ \E h \in ret : h[1] = <<"a">>

\* ------------------------------------------ defaultPathSerializer, called
\* what a path template is made of: literal text and the six placeholder forms
Segments ==
  {<<"/">>, <<"{", "a", "}">>, <<"{", "a", "*", "}">>, <<"{", ".", "a", "}">>,
   <<"{", ";", "a", "}">>, <<"{", ".", "a", "*", "}">>, <<"{", ";", "a", "*", "}">>,
   <<"{", "b", "}">>, <<"{", "d", "}">>}

RECURSIVE Flatten(_)
Flatten(parts) == IF parts = <<>> THEN <<>> ELSE Head(parts) \o Flatten(Tail(parts))

\* the templates of at most MaxSegments segments
Templates == {Flatten(p) : p \in UNION {[1..n -> Segments] : n \in 0..MaxSegments}}

\* the values of parameter a: absent, null, a primitive, an array, and a
\* primitive that is itself the text of a placeholder
ValuesOfA ==
  {UndefinedV, NullV, PrimV(<<"1">>), ArrayV(<<Prim(<<"1">>), Prim(<<"2">>)>>),
   PrimV(<<"{", "b", "}">>)}
\* the values of parameter b: absent, a primitive, and a primitive that is a
\* replacement pattern of String.prototype.replace
ValuesOfB == {UndefinedV, PrimV(<<"x">>), PrimV(<<"$", "&">>)}
\* c is named by no placeholder, and d, which a placeholder names, is never given
ValuesOfC == {UndefinedV, PrimV(<<"9">>)}

PathMapping(a, b, c) ==
  ObjectV(SelectSeq(<<[k |-> <<"a">>, v |-> a], [k |-> <<"b">>, v |-> b],
                      [k |-> <<"c">>, v |-> c]>>,
                    LAMBDA e : e.v.t /= "undefined"))

PathParamSets ==
  {UndefinedV, NullV}
  \cup {PathMapping(a, b, c) : a \in ValuesOfA, b \in ValuesOfB, c \in ValuesOfC}

InitPath ==
  /\ NoRequest
  /\ NoConcurrent
  /\ args \in [pathname : Templates, pathParams : PathParamSets]
  /\ ret = Undefined
  /\ called = FALSE

CallDefaultPathSerializer ==
  /\ ~called
  /\ ret' = defaultPathSerializer(args.pathname, args.pathParams)
  /\ called' = TRUE
  /\ UNCHANGED <<args, coreVars, concVars>>

NextPath == CallDefaultPathSerializer

SpecPath == InitPath /\ [][NextPath]_vars

RECURSIVE SubstituteInPlace(_, _, _)
\* The template read left to right from character i, every placeholder whose
\* parameter is neither undefined nor null replaced, where it stands, by the
\* serialization of that parameter; the other placeholders and the literal
\* text are copied.
SubstituteInPlace(template, i, pathParams) ==
  IF i > Len(template) THEN <<>>
  ELSE LET n == MatchAt(template, i)
       IN IF n = 0
          THEN <<template[i]>> \o SubstituteInPlace(template, i + 1, pathParams)
          ELSE LET match == SubSeq(template, i, i + n - 1)
                   ph == Placeholder(match)
                   value == Lookup(pathParams, ph.paramName)
               IN (IF IsNullish(pathParams) \/ IsNullish(value) THEN match
                   ELSE PathReplacement(ph, value))
                  \o SubstituteInPlace(template, i + n, pathParams)

\* the mapping without the parameters no placeholder of the template names
NamedOnly(template, pathParams) ==
  IF IsNullish(pathParams) THEN pathParams
  ELSE ObjectV(SelectSeq(pathParams.es,
         LAMBDA e : \E j \in 1..Len(PathMatches(template, 1)) :
                      Placeholder(PathMatches(template, 1)[j]).paramName = e.k))

\* some placeholder of the template names a parameter that is not given
SomeMissing(template, pathParams) ==
  \E j \in 1..Len(PathMatches(template, 1)) :
    \/ IsNullish(pathParams)
    \/ IsNullish(Lookup(pathParams, Placeholder(PathMatches(template, 1)[j]).paramName))

\* C8: in the output of defaultPathSerializer every placeholder whose
\* parameter is absent, undefined or null (or whose mapping is nullish) stands
\* unchanged at its position, every other placeholder is substituted at its
\* position, no error is raised, and a parameter that no placeholder names
\* changes nothing.
C8_MissingStaysOthersSubstituted ==
  (called /\ SomeMissing(args.pathname, args.pathParams)) =>
    /\ ret = Prim(SubstituteInPlace(args.pathname, 1, args.pathParams))
    /\ ret = defaultPathSerializer(args.pathname, NamedOnly(args.pathname, args.pathParams))


\* ------------------------------------------------------- coreFetch, stepped
NoFetchOptions == <<>>
NoResponse == [id |-> -1, ok |-> FALSE, status |-> 0, contentLength |-> <<>>,
               body |-> <<>>, bodyUsed |-> FALSE]
NoResult == [kind |-> "none", payload |-> Undefined, response |-> -1]
NoSerializer == [kind |-> "none", fn |-> "none", options |-> NoOptions]

Methods == {"GET", "PUT", "POST", "DELETE", "OPTIONS", "HEAD", "PATCH", "TRACE"}

NoHeaders == [t |-> "undefined", es |-> <<>>]

\* coreFetch from its first line to the await of fetch(finalURL, requestInit)
CoreFetchBuild(fo) ==
  LET qs == ResolveQuerySerializer(clientOptions.querySerializer, fo.querySerializer)
      url == createFinalURL(fo.url, clientOptions.baseUrl, fo.params.path,
                            ApplySerializer(qs, fo.params.query))
  IN /\ pc = "idle"
     /\ fetchOptions' = fo
     /\ serializer' = qs
     /\ IF url.t = "thrown"
        THEN /\ pc' = "thrown"
             /\ thrown' = "UnsupportedValue"
             /\ UNCHANGED <<finalURL, finalHeaders>>
        ELSE /\ pc' = "sent"
             /\ finalURL' = url
             /\ finalHeaders' = mergeHeaders(<<DEFAULT_HEADERS, clientOptions.headers,
                                               fo.headers, fo.params.header>>)
             /\ UNCHANGED thrown
     /\ UNCHANGED <<clientOptions, response, clones, result, callVars, concVars>>

\* the read of a body through `target`: the response itself, a fresh clone of
\* it, or the clone made last; a used body cannot be cloned or read again
ReadOutcome(target, method) ==
  IF \/ target \in {"freshClone", "response"} /\ response.bodyUsed
     \/ target = "lastClone" /\ (clones = <<>> \/ clones[Len(clones)].bodyUsed)
  THEN Rejected("TypeError")
  ELSE BodyContent(method, response.body)

ReadResponse(target) ==
  IF target = "response" /\ ~response.bodyUsed
  THEN [response EXCEPT !.bodyUsed = TRUE] ELSE response

ReadClones(target, method) ==
  IF target = "freshClone" /\ ~response.bodyUsed
  THEN Append(clones, [id |-> Len(clones) + 1, bodyUsed |-> TRUE, readAs |-> method])
  ELSE IF target = "lastClone" /\ clones /= <<>> /\ ~clones[Len(clones)].bodyUsed
  THEN [clones EXCEPT ![Len(clones)] = [@ EXCEPT !.bodyUsed = TRUE, !.readAs = method]]
  ELSE clones

\* The transport hands over fresh responses (body not yet read); ok, status,
\* Content-Length and body are each the server's or the transport's choice.
Responses ==
  [id : {0}, ok : BOOLEAN, status : {200, NoContentStatus, 500},
   contentLength : {<<>>, <<"0">>, <<"2">>},
   body : {<<>>, <<"4", "2">>, <<"\"", "a", "\"">>, <<"o", "o", "p", "s">>},
   bodyUsed : {FALSE}]

\* await fetch(finalURL, requestInit) resolves
TransportRespond ==
  /\ pc = "sent"
  /\ \E r \in Responses : response' = r
  /\ pc' = "responded"
  /\ UNCHANGED <<clientOptions, fetchOptions, finalURL, finalHeaders, clones, result,
                 serializer, thrown, callVars, concVars>>

\* await fetch(finalURL, requestInit) rejects
TransportReject ==
  /\ pc = "sent"
  /\ pc' = "thrown"
  /\ thrown' = "TransportFailure"
  /\ UNCHANGED <<clientOptions, fetchOptions, finalURL, finalHeaders, response, clones,
                 result, serializer, callVars, concVars>>

\* handle empty content
HandleEmptyContent ==
  /\ pc = "responded"
  /\ IsEmptyContent(response)
  /\ result' = EmptyContentResult(response)
  /\ pc' = "done"
  /\ UNCHANGED <<clientOptions, fetchOptions, finalURL, finalHeaders, response, clones,
                 serializer, thrown, callVars, concVars>>

\* if (parseAs === "stream") return { data: response.clone().body, response }
ReturnStream ==
  /\ pc = "responded"
  /\ ~IsEmptyContent(response)
  /\ response.ok
  /\ fetchOptions.parseAs = "stream"
  /\ clones' = Append(clones, [id |-> Len(clones) + 1, bodyUsed |-> FALSE,
                               readAs |-> "none"])
  /\ result' = [kind |-> "data", payload |-> [t |-> "stream", s |-> response.body],
                response |-> response.id]
  /\ pc' = "done"
  /\ UNCHANGED <<clientOptions, fetchOptions, finalURL, finalHeaders, response,
                 serializer, thrown, callVars, concVars>>

\* const cloned = response.clone(); return { data: await cloned[parseAs](), response }
ParseOk ==
  /\ pc = "responded"
  /\ ~IsEmptyContent(response)
  /\ response.ok
  /\ fetchOptions.parseAs /= "stream"
  /\ LET method == ParseMethod(fetchOptions.parseAs)
         outcome == ReadOutcome(OkParseTarget, method)
     IN /\ response' = ReadResponse(OkParseTarget)
        /\ clones' = ReadClones(OkParseTarget, method)
        /\ IF outcome.ok
           THEN /\ result' = [kind |-> "data", payload |-> outcome.v,
                              response |-> response.id]
                /\ pc' = "done"
                /\ UNCHANGED thrown
           ELSE /\ pc' = "thrown"
                /\ thrown' = outcome.err
                /\ UNCHANGED result
  /\ UNCHANGED <<clientOptions, fetchOptions, finalURL, finalHeaders, serializer,
                 callVars, concVars>>

\* try { error = await response.clone().json() } catch { ... }
ParseErrorJson ==
  /\ pc = "responded"
  /\ ~IsEmptyContent(response)
  /\ ~response.ok
  /\ LET outcome == ReadOutcome(ErrorJsonTarget, "json")
     IN /\ response' = ReadResponse(ErrorJsonTarget)
        /\ clones' = ReadClones(ErrorJsonTarget, "json")
        /\ IF outcome.ok
           THEN /\ result' = [kind |-> "error", payload |-> outcome.v,
                              response |-> response.id]
                /\ pc' = "done"
           ELSE /\ pc' = "errorText"
                /\ UNCHANGED result
  /\ UNCHANGED <<clientOptions, fetchOptions, finalURL, finalHeaders, serializer, thrown,
                 callVars, concVars>>

\* catch { error = await response.clone().text() } return { error, response }
ParseErrorText ==
  /\ pc = "errorText"
  /\ LET outcome == ReadOutcome(ErrorTextTarget, "text")
     IN /\ response' = ReadResponse(ErrorTextTarget)
        /\ clones' = ReadClones(ErrorTextTarget, "text")
        /\ IF outcome.ok
           THEN /\ result' = [kind |-> "error", payload |-> outcome.v,
                              response |-> response.id]
                /\ pc' = "done"
                /\ UNCHANGED thrown
           ELSE /\ pc' = "thrown"
                /\ thrown' = outcome.err
                /\ UNCHANGED result
  /\ UNCHANGED <<clientOptions, fetchOptions, finalURL, finalHeaders, serializer,
                 callVars, concVars>>

NoCall == args = <<>> /\ ret = <<>> /\ called = FALSE

\* the state a client is in once createClient has returned
ClientReady(options) ==
  /\ pc = "idle"
  /\ clientOptions = createClient(options)
  /\ fetchOptions = NoFetchOptions
  /\ finalURL = Undefined
  /\ finalHeaders = {}
  /\ response = NoResponse
  /\ clones = <<>>
  /\ result = NoResult
  /\ serializer = NoSerializer
  /\ thrown = "none"
  /\ NoCall
  /\ NoConcurrent

\* a query whose value reaches the primitive encoder as a nested object
NestedQuery == <<[k |-> <<"q">>, v |-> ArrayV(<<Nested>>)]>>

\* the calls of the eight client methods
MethodCalls ==
  [method : Methods, url : {<<"/", "x">>},
   params : [path : {UndefinedV},
             query : {<<>>, <<[k |-> <<"q">>, v |-> PrimV(<<"1">>)]>>, NestedQuery},
             header : {NoHeaders}],
   headers : {NoHeaders},
   parseAs : {"json", "text", "blob", "stream", "xml"},
   querySerializer : {NoSerializerSetting}]

Init ==
  \E options \in [querySerializer : {NoSerializerSetting, FunctionSetting("globalFn")},
                  headers : {NoHeaders}, baseUrl : {<<"h", "/">>}] :
    ClientReady(options)

\* client.GET(url, init), client.PUT(url, init), ...
Call == \E fo \in MethodCalls : CoreFetchBuild(fo)

Next ==
  \/ Call
  \/ TransportRespond
  \/ TransportReject
  \/ HandleEmptyContent
  \/ ReturnStream
  \/ ParseOk
  \/ ParseErrorJson
  \/ ParseErrorText

Spec == Init /\ [][Next]_vars

\* C1: whatever the response, the call resolves with data (and no error)
\* exactly when response.ok, with error (and no data) exactly when not, and
\* the response it hands back is the object the transport returned, not a clone.
C1_OutcomeFollowsOk ==
  pc = "done" =>
    /\ result.kind \in {"data", "error"}
    /\ (result.kind = "data") = response.ok
    /\ result.response = response.id
    /\ \A i \in 1..Len(clones) : clones[i].id /= result.response

\* a response that is not ok although its status is 200 and its body is good
\* JSON resolves with error
C1_Witness ==
  /\ pc = "done" /\ ~response.ok /\ response.status = 200
  /\ response.body = <<"4", "2">> /\ response.contentLength = <<"2">>
  /\ result.kind = "error"

\* C2: a call rejects only because a nested value reached the primitive
\* encoder or because the transport rejected; once the transport has returned
\* a response the call resolves.
C2_RejectsOnlyOnContractOrTransport ==
  pc = "thrown" => thrown \in {"UnsupportedValue", "TransportFailure"}

\* C3: a response that is not ok and not empty resolves with error = the body
\* parsed as JSON, or the raw text of the body when that parse fails; each
\* read is made on a clone of its own and the response itself is never read.
C3_ErrorJsonThenText ==
  (pc \in {"done", "thrown"} /\ response.id = 0 /\ ~response.ok
     /\ response.status /= 204 /\ response.contentLength /= <<"0">>) =>
    LET parsed == ParseJSON(response.body)
    IN /\ pc = "done"
       /\ result.kind = "error"
       /\ result.payload = IF parsed.ok THEN parsed.v
                           ELSE [t |-> "text", s |-> response.body]
       /\ ~response.bodyUsed
       /\ Len(clones) = IF parsed.ok THEN 1 ELSE 2
       /\ clones[1].readAs = "json"
       /\ ~parsed.ok => clones[2].readAs = "text" /\ clones[2].id /= clones[1].id

\* an error body that is no JSON comes back as its text, read from a second clone
C3_Witness ==
  /\ pc = "done" /\ ~response.ok /\ response.status = 500
  /\ response.body = <<"o", "o", "p", "s">>
  /\ result.payload = [t |-> "text", s |-> <<"o", "o", "p", "s">>]
  /\ Len(clones) = 2

\* C4: a response with status 204 or Content-Length "0" resolves with {} as
\* data or error by response.ok, for every parseAs and body, with no clone
\* made and no body read, before any other branch is taken.
C4_EmptyContentFirst ==
  (response.id = 0 /\ (response.status = 204 \/ response.contentLength = <<"0">>)) =>
    /\ pc \in {"responded", "done"}
    /\ clones = <<>>
    /\ ~response.bodyUsed
    /\ pc = "done" =>
         result = [kind |-> IF response.ok THEN "data" ELSE "error",
                   payload |-> [t |-> "object", s |-> <<>>], response |-> 0]

\* status 200 with Content-Length "0", parseAs "stream", a body that is no JSON
C4_Witness ==
  /\ pc = "done" /\ response.ok /\ response.status = 200
  /\ response.contentLength = <<"0">> /\ fetchOptions.parseAs = "stream"
  /\ response.body = <<"o", "o", "p", "s">>
  /\ result.kind = "data" /\ result.payload.t = "object"

\* ------------------------------------------- coreFetch up to the transport
SubOptionChoices ==
  {NoSubOptions}
  \cup [given : {TRUE}, style : {"unset", "pipeDelimited"}, explode : {"unset", "false"}]

SerializerOptionChoices ==
  [given : {TRUE}, allowReserved : {"unset", "true", "false"}, array : SubOptionChoices,
   object : {NoSubOptions, [given |-> TRUE, style |-> "form", explode |-> "false"]}]

ClientSerializerSettings ==
  {NoSerializerSetting, FunctionSetting("globalFn")}
  \cup {OptionsSetting(o) : o \in SerializerOptionChoices}

RequestSerializerSettings ==
  {NoSerializerSetting, FunctionSetting("requestFn")}
  \cup {OptionsSetting(o) : o \in SerializerOptionChoices}

BuildCalls ==
  [method : {"GET"},
   url : {<<"/", "x">>, <<"/", "x", "/", "{", "a", "}">>},
   params : [path : {UndefinedV, ObjectV(<<>>),
                     ObjectV(<<[k |-> <<"a">>, v |-> PrimV(<<"1">>)]>>)},
             query : {<<>>,
                      <<[k |-> <<"q">>, v |-> ArrayV(<<Prim(<<"1">>), Prim(<<"2">>)>>)]>>,
                      <<[k |-> <<"q">>,
                         v |-> ObjectV(<<[k |-> <<"R">>, v |-> Prim(<<"1">>)]>>)]>>},
             header : {NoHeaders}],
   headers : {NoHeaders},
   parseAs : {"json"},
   querySerializer : RequestSerializerSettings]

InitBuild ==
  \E options \in [querySerializer : ClientSerializerSettings, headers : {NoHeaders},
                  baseUrl : {<<>>, <<"h", "/">>}] :
    ClientReady(options)

CallBuild == \E fo \in BuildCalls : CoreFetchBuild(fo)

NextBuild == CallBuild

SpecBuild == InitBuild /\ [][NextBuild]_vars

\* C7: with no placeholder in baseUrl + pathname the URL is that template
\* unchanged, followed by ? and the query string when the query string is not
\* empty, whether params.path is absent, empty or a non-empty mapping.
C7_TemplatePassedThrough ==
  LET template == clientOptions.baseUrl \o fetchOptions.url
      search == StripLeadingQuestions(ApplySerializer(serializer,
                                                      fetchOptions.params.query))
  IN (pc = "sent" /\ PathMatches(template, 1) = <<>>) =>
       finalURL = Prim(template \o (IF search /= <<>> THEN <<"?">> \o search ELSE <<>>))

\* the client-level options, when the client-level setting is an options object
ClientLevelOptions ==
  IF clientOptions.querySerializer.kind = "options"
  THEN clientOptions.querySerializer.options ELSE NoOptions

StyleOf(sub, default) == IF sub.given /\ sub.style /= "unset" THEN sub.style ELSE default
ExplodeOf(sub) == IF sub.given /\ sub.explode /= "unset" THEN sub.explode = "true" ELSE TRUE

\* cases (1) and (3) of C10: a request-level function is used as is; with no
\* request-level setting the client-level serializer is used
FunctionOrClientLevel ==
  LET r == fetchOptions.querySerializer
      g == clientOptions.querySerializer
  IN /\ r.kind = "function" => serializer = CustomSerializer(r.fn)
     /\ r.kind = "undefined" =>
          serializer = IF g.kind = "function" THEN CustomSerializer(g.fn)
                       ELSE BuiltSerializer(ClientLevelOptions)

\* allowReserved as the built serializer applies it: the request's when the
\* request gives it, else the client's
AllowReservedMerged ==
  LET r == fetchOptions.querySerializer.options
  IN ArrayOptions(serializer.options).allowReserved =
       (IF r.allowReserved /= "unset" THEN r.allowReserved = "true"
        ELSE ClientLevelOptions.allowReserved = "true")

\* C10 as stated: with request-level options, every setting the request does
\* not give keeps its client-level value, the style and explode keys inside
\* array and object included.
C10_EveryKeyKeepsClientValue ==
  LET r == fetchOptions.querySerializer
      g == ClientLevelOptions
  IN pc = "sent" =>
       /\ FunctionOrClientLevel
       /\ r.kind = "options" =>
            /\ serializer.kind = "built"
            /\ AllowReservedMerged
            /\ ArrayOptions(serializer.options).style =
                 StyleOf(r.options.array, StyleOf(g.array, "form"))
            /\ ArrayOptions(serializer.options).explode =
                 (IF r.options.array.given /\ r.options.array.explode /= "unset"
                  THEN r.options.array.explode = "true" ELSE ExplodeOf(g.array))
            /\ ObjectOptions(serializer.options).style =
                 StyleOf(r.options.object, StyleOf(g.object, "deepObject"))
            /\ ObjectOptions(serializer.options).explode =
                 (IF r.options.object.given /\ r.options.object.explode /= "unset"
                  THEN r.options.object.explode = "true" ELSE ExplodeOf(g.object))

\* C10 amended: with request-level options, allowReserved, array and object
\* are each taken from the request when the request gives that key and from
\* the client otherwise; an array or object sub-option the request gives
\* replaces the client's whole, so a style or explode it leaves out falls back
\* to the default (form / deepObject, explode true), not to the client's.
C10_TopLevelKeysOnly ==
  LET r == fetchOptions.querySerializer
      g == ClientLevelOptions
      array == IF r.options.array.given THEN r.options.array ELSE g.array
      object == IF r.options.object.given THEN r.options.object ELSE g.object
  IN pc = "sent" =>
       /\ FunctionOrClientLevel
       /\ r.kind = "options" =>
            /\ serializer.kind = "built"
            /\ AllowReservedMerged
            /\ ArrayOptions(serializer.options).style = StyleOf(array, "form")
            /\ ArrayOptions(serializer.options).explode = ExplodeOf(array)
            /\ ObjectOptions(serializer.options).style = StyleOf(object, "deepObject")
            /\ ObjectOptions(serializer.options).explode = ExplodeOf(object)

\* the request gives array.explode only, the client array.style pipeDelimited:
\* the array is serialized in the default style
C10_Witness ==
  /\ pc = "sent"
  /\ fetchOptions.querySerializer.kind = "options"
  /\ fetchOptions.querySerializer.options.array.given
  /\ fetchOptions.querySerializer.options.array.style = "unset"
  /\ ClientLevelOptions.array.style = "pipeDelimited"
  /\ ClientLevelOptions.allowReserved = "true"
  /\ fetchOptions.querySerializer.options.allowReserved = "unset"
  /\ ArrayOptions(serializer.options).style = "form"
  /\ ArrayOptions(serializer.options).allowReserved
  /\ Len(fetchOptions.params.query) = 1


\* ------------------------------------------- coreFetch, calls in progress
MaxRequests == 2

\* the calls made on the one client, by the order they were numbered in
Requests == 1..MaxRequests

\* a body, and what the body serializers make of it: defaultBodySerializer is
\* JSON.stringify, a caller's serializer here hands the body on as it is
NoBody == [t |-> "undefined"]
JsonBody == [t |-> "object"]
FormDataBody == [t |-> "FormData"]

defaultBodySerializer(body) == [t |-> "string", of |-> body.t]

ApplyBodySerializer(bodySerializer, body) ==
  IF bodySerializer = "default" THEN defaultBodySerializer(body) ELSE body

CustomHeader == <<"A">>
HeaderObject(v) == [t |-> "object", es |-> <<[k |-> CustomHeader, v |-> v]>>]

\* the calls: a plain one, a multipart one, one with a JSON body and a header
\* of its own, a streamed one with a query, one whose query is nested
ConcurrentCalls ==
  LET plain == [method |-> "GET", url |-> <<"/", "x">>,
                params |-> [path |-> UndefinedV, query |-> <<>>, header |-> NoHeaders],
                headers |-> NoHeaders, body |-> NoBody, bodySerializer |-> "default",
                parseAs |-> "json", querySerializer |-> NoSerializerSetting]
  IN {plain,
      [plain EXCEPT !.method = "POST", !.body = FormDataBody, !.bodySerializer = "custom"],
      [plain EXCEPT !.method = "POST", !.body = JsonBody, !.parseAs = "text",
                    !.headers = HeaderObject(Prim(<<"2">>))],
      [plain EXCEPT !.parseAs = "stream",
                    !.params.query = <<[k |-> <<"q">>, v |-> PrimV(<<"1">>)]>>,
                    !.params.path = ObjectV(<<[k |-> <<"a">>, v |-> Prim(<<"1">>)]>>),
                    !.url = <<"/", "{", "a", "}">>],
      [plain EXCEPT !.params.query = NestedQuery]}

\* the locals of a call that has not started
NoFrame ==
  [pc |-> "idle", fetchOptions |-> NoFetchOptions, querySerializer |-> NoSerializer,
   finalURL |-> Undefined, finalHeaders |-> 0, requestInit |-> <<>>,
   response |-> NoResponse, clones |-> 0, result |-> NoResult, thrown |-> "none"]

\* NewHeaders handing every call the Headers object of the first
NewHeaders_Shared(r) == 1

\* const headers = new Headers(): the object call r's mergeHeaders fills,
\* a new one for each call
NewHeaders(r) == r

\* PATH_PARAM_RE.lastIndex once pathname.match(PATH_PARAM_RE) has returned:
\* a match with a global pattern starts from 0 and leaves 0
LastIndexAfterMatch == 0

\* requestInit = { redirect: "follow", ...baseOptions, ...init, headers: finalHeaders }
\* and requestInit.body = bodySerializer(requestBody) when there is a body
RequestInit(fo, headersRef) ==
  [redirect |-> "follow", method |-> fo.method, headers |-> headersRef,
   body |-> IF fo.body.t /= "undefined" THEN ApplyBodySerializer(fo.bodySerializer, fo.body)
            ELSE NoBody]

\* coreFetch(url, fetchOptions) of call r, from its first line to the await
\* of fetch(finalURL, requestInit)
coreFetch(r, fo) ==
  LET qs == ResolveQuerySerializer(heap.client.querySerializer, fo.querySerializer)
      url == createFinalURL(fo.url, heap.client.baseUrl, fo.params.path,
                            ApplySerializer(qs, fo.params.query))
      h == NewHeaders(r)
      merged == mergeHeaders(<<heap.DEFAULT_HEADERS, heap.client.headers,
                               fo.headers, fo.params.header>>)
      init == RequestInit(fo, h)
      lastIndex == IF fo.params.path.t = "object" THEN LastIndexAfterMatch
                   ELSE heap.lastIndex
  IN /\ requests[r].pc = "idle"
     /\ IF url.t = "thrown"
        THEN /\ requests' = [requests EXCEPT ![r] =
                 [@ EXCEPT !.pc = "thrown", !.fetchOptions = fo, !.querySerializer = qs,
                           !.thrown = "UnsupportedValue"]]
             /\ heap' = [heap EXCEPT !.lastIndex = lastIndex]
        ELSE /\ requests' = [requests EXCEPT ![r] =
                 [@ EXCEPT !.pc = "sent", !.fetchOptions = fo, !.querySerializer = qs,
                           !.finalURL = url, !.finalHeaders = h, !.requestInit = init]]
             /\ heap' = [heap EXCEPT
                  !.lastIndex = lastIndex,
                  !.headers[h] = IF init.body.t = "FormData"
                                 THEN HeadersDelete(merged, <<"C","o","n","t","e","n","t","-","T","y","p","e">>)
                                 ELSE merged]
     /\ UNCHANGED <<coreVars, callVars>>

\* call r moves on with the locals `frame`; nothing else is written
Resume(r, frame) ==
  /\ requests' = [requests EXCEPT ![r] = frame]
  /\ UNCHANGED <<heap, coreVars, callVars>>

\* the responses of the transport, each call getting a Response of its own
ConcurrentResponses(r) ==
  {[id |-> r, ok |-> TRUE, status |-> 200, contentLength |-> <<"2">>,
    body |-> <<"4", "2">>, bodyUsed |-> FALSE],
   [id |-> r, ok |-> FALSE, status |-> 500, contentLength |-> <<>>,
    body |-> <<"o", "o", "p", "s">>, bodyUsed |-> FALSE],
   [id |-> r, ok |-> TRUE, status |-> NoContentStatus, contentLength |-> <<>>,
    body |-> <<>>, bodyUsed |-> FALSE]}

\* call r: await fetch(finalURL, requestInit) resolves
FetchResolves(r) ==
  /\ requests[r].pc = "sent"
  /\ \E resp \in ConcurrentResponses(r) :
       Resume(r, [requests[r] EXCEPT !.pc = "responded", !.response = resp])

\* call r: await fetch(finalURL, requestInit) rejects
FetchRejects(r) ==
  /\ requests[r].pc = "sent"
  /\ Resume(r, [requests[r] EXCEPT !.pc = "thrown", !.thrown = "TransportFailure"])

\* call r: handle empty content
EmptyContent(r) ==
  /\ requests[r].pc = "responded"
  /\ IsEmptyContent(requests[r].response)
  /\ Resume(r, [requests[r] EXCEPT !.pc = "done",
                                   !.result = EmptyContentResult(requests[r].response)])

\* call r: return { data: response.clone().body, response }
Stream(r) ==
  LET f == requests[r]
  IN /\ f.pc = "responded"
     /\ ~IsEmptyContent(f.response)
     /\ f.response.ok
     /\ f.fetchOptions.parseAs = "stream"
     /\ Resume(r, [f EXCEPT !.pc = "done", !.clones = @ + 1,
                            !.result = [kind |-> "data",
                                        payload |-> [t |-> "stream", s |-> f.response.body],
                                        response |-> f.response.id]])

\* call r: return { data: await cloned[parseAs](), response }
OkBody(r) ==
  LET f == requests[r]
      outcome == BodyContent(ParseMethod(f.fetchOptions.parseAs), f.response.body)
  IN /\ f.pc = "responded"
     /\ ~IsEmptyContent(f.response)
     /\ f.response.ok
     /\ f.fetchOptions.parseAs /= "stream"
     /\ Resume(r, IF outcome.ok
                  THEN [f EXCEPT !.pc = "done", !.clones = @ + 1,
                                 !.result = [kind |-> "data", payload |-> outcome.v,
                                             response |-> f.response.id]]
                  ELSE [f EXCEPT !.pc = "thrown", !.clones = @ + 1,
                                 !.thrown = outcome.err])

\* call r: try { error = await response.clone().json() }
ErrorJson(r) ==
  LET f == requests[r]
      outcome == BodyContent("json", f.response.body)
  IN /\ f.pc = "responded"
     /\ ~IsEmptyContent(f.response)
     /\ ~f.response.ok
     /\ Resume(r, IF outcome.ok
                  THEN [f EXCEPT !.pc = "done", !.clones = @ + 1,
                                 !.result = [kind |-> "error", payload |-> outcome.v,
                                             response |-> f.response.id]]
                  ELSE [f EXCEPT !.pc = "errorText", !.clones = @ + 1])

\* call r: catch { error = await response.clone().text() } return { error, response }
ErrorText(r) ==
  LET f == requests[r]
      outcome == BodyContent("text", f.response.body)
  IN /\ f.pc = "errorText"
     /\ Resume(r, [f EXCEPT !.pc = "done", !.clones = @ + 1,
                            !.result = [kind |-> "error", payload |-> outcome.v,
                                        response |-> f.response.id]])

\* the Headers objects, none made yet
NoHeadersObject == "none"

\* one client, made by createClient, and no call started
InitConcurrent ==
  /\ NoRequest
  /\ NoCall
  /\ requests = [r \in Requests |-> NoFrame]
  /\ \E options \in [querySerializer : {NoSerializerSetting},
                     headers : {NoHeaders, HeaderObject(Prim(<<"1">>))},
                     baseUrl : {<<"h", "/">>}] :
       heap = [DEFAULT_HEADERS |-> DEFAULT_HEADERS, client |-> createClient(options),
               lastIndex |-> 0, headers |-> [r \in Requests |-> NoHeadersObject]]

\* client.GET(url, init), client.POST(url, init), ... as call r
CallConcurrent(r) == \E fo \in ConcurrentCalls : coreFetch(r, fo)

NextConcurrent ==
  \E r \in Requests :
    \/ CallConcurrent(r)
    \/ FetchResolves(r)
    \/ FetchRejects(r)
    \/ EmptyContent(r)
    \/ Stream(r)
    \/ OkBody(r)
    \/ ErrorJson(r)
    \/ ErrorText(r)

SpecConcurrent == InitConcurrent /\ [][NextConcurrent]_vars

\* What a call makes when it is the only one the client ever runs, worked
\* out from its own options, the client and its own response alone.
AloneURL(client, fo) ==
  createFinalURL(fo.url, client.baseUrl, fo.params.path,
                 ApplySerializer(ResolveQuerySerializer(client.querySerializer,
                                                        fo.querySerializer),
                                 fo.params.query))

AloneHeaders(client, fo) ==
  LET merged == mergeHeaders(<<DEFAULT_HEADERS, client.headers, fo.headers,
                               fo.params.header>>)
  IN IF fo.body = FormDataBody /\ fo.bodySerializer = "custom"
     THEN {e \in merged : e[1] /= <<"c","o","n","t","e","n","t","-","t","y","p","e">>}
     ELSE merged

AloneBody(fo) ==
  IF fo.body = NoBody THEN NoBody
  ELSE IF fo.bodySerializer = "custom" THEN fo.body
  ELSE [t |-> "string", of |-> fo.body.t]

AloneResult(fo, resp) ==
  IF resp.status = 204 \/ resp.contentLength = <<"0">>
  THEN [kind |-> IF resp.ok THEN "data" ELSE "error", payload |-> EmptyObject,
        response |-> resp.id]
  ELSE IF resp.ok
  THEN [kind |-> "data",
        payload |-> IF fo.parseAs = "stream" THEN [t |-> "stream", s |-> resp.body]
                    ELSE BodyContent(ParseMethod(fo.parseAs), resp.body).v,
        response |-> resp.id]
  ELSE [kind |-> "error",
        payload |-> IF ParseJSON(resp.body).ok THEN ParseJSON(resp.body).v
                    ELSE [t |-> "text", s |-> resp.body],
        response |-> resp.id]

\* call r has built its request and handed it to the transport
Built(r) ==
  \/ requests[r].pc \in {"sent", "responded", "errorText", "done"}
  \/ requests[r].pc = "thrown" /\ requests[r].thrown /= "UnsupportedValue"

\* every call in progress or finished has what it would have alone
Isolated ==
  /\ heap.DEFAULT_HEADERS = DEFAULT_HEADERS
  /\ heap.lastIndex = 0
  /\ \A r \in Requests :
       LET f == requests[r]
       IN /\ Built(r) =>
               /\ f.finalURL = AloneURL(heap.client, f.fetchOptions)
               /\ f.requestInit.headers = f.finalHeaders
               /\ \A other \in Requests \ {r} :
                    requests[other].finalHeaders /= f.finalHeaders
               /\ heap.headers[f.finalHeaders] = AloneHeaders(heap.client, f.fetchOptions)
               /\ f.requestInit.method = f.fetchOptions.method
               /\ f.requestInit.redirect = "follow"
               /\ f.requestInit.body = AloneBody(f.fetchOptions)
          /\ (f.pc = "thrown" /\ f.thrown = "UnsupportedValue") <=>
               (f.pc /= "idle" /\ AloneURL(heap.client, f.fetchOptions).t = "thrown")
          /\ f.pc \in {"responded", "errorText", "done"} => f.response.id = r
          /\ f.pc = "done" => f.result = AloneResult(f.fetchOptions, f.response)

\* no step of any call writes DEFAULT_HEADERS or what createClient closed over
ConfigurationKept ==
  /\ heap'.DEFAULT_HEADERS = heap.DEFAULT_HEADERS
  /\ heap'.client = heap.client

\* C11: however the calls made on one client interleave around their awaits,
\* each call's final URL, final headers (Content-Type removed for a multipart
\* body), request init and classified result are what that call has when it
\* runs alone, no call uses the Headers object of another, and no step changes
\* DEFAULT_HEADERS or the client-level baseUrl, headers and serializer.
C11_CallsIsolated == [](Isolated) /\ [][ConfigurationKept]_vars

\* call 1 is suspended on the transport with a multipart body and no
\* Content-Type while call 2, with a JSON body and a header of its own over
\* the client's, has resolved with its Content-Type in place
C11_Witness ==
  /\ requests[1].pc = "sent"
  /\ requests[1].requestInit.body = FormDataBody
  /\ \A e \in heap.headers[requests[1].finalHeaders] :
       e[1] /= <<"c","o","n","t","e","n","t","-","t","y","p","e">>
  /\ <<<<"a">>, <<"1">>>> \in heap.headers[requests[1].finalHeaders]
  /\ requests[2].pc = "done"
  /\ requests[2].fetchOptions.body = JsonBody
  /\ requests[2].result.kind = "error"
  /\ <<<<"a">>, <<"2">>>> \in heap.headers[requests[2].finalHeaders]
  /\ \E e \in heap.headers[requests[2].finalHeaders] :
       e[1] = <<"c","o","n","t","e","n","t","-","t","y","p","e">>
====
